---- MODULE Spec2Model ----
(***************************************************************************)
(* docs/create_html_pages.py: the markdown-to-HTML converter               *)
(* (markdown_to_html_simple) and the batch driver (main).                  *)
(*                                                                         *)
(* Text is a sequence of one-character strings, so that every regular      *)
(* expression, split, strip and join of the source works on characters.    *)
(*                                                                         *)
(* Path (line 8) is taken with the meaning its calls are written for, that *)
(* of pathlib: '/' joins, exists() tests the file, mkdir(exist_ok=True)    *)
(* creates the directory or leaves an existing one alone.  File reads and  *)
(* writes succeed.                                                         *)
(***************************************************************************)
EXTENDS Naturals, Sequences, FiniteSets

VARIABLES
    \* markdown_to_html_simple
    md_arg,         \* the md_content argument as passed by the caller
    title,          \* the title argument
    md_content,     \* the local md_content, rewritten by each re.sub
    html,           \* the local html accumulator
    lines,          \* md_content.split('\n')
    line,           \* position of the for loop in lines (1-based)
    current_para,   \* the paragraph buffer
    paragraphs,     \* the emitted body lines
    pc,             \* the statement markdown_to_html_simple is about to run
    \* main
    root_fs,        \* files of root_dir: a function filename -> content
    docs_dir,       \* TRUE when the directory root_dir/docs exists
    docs_fs,        \* files of docs_dir: a function filename -> content
    console,        \* the lines printed by the current run
    written,        \* the filenames of docs_dir opened for writing by the current run
    mpc,            \* position of main: "idle", "mkdir", "loop" or "done"
    pair,           \* position of the for loop in files_to_convert (1-based)
    runs,           \* number of runs of main started
    prev            \* console and filesystem as the previous run left them

tvars == <<md_arg, title, md_content, html, lines, line, current_para, paragraphs, pc>>
dvars == <<root_fs, docs_dir, docs_fs, console, written, mpc, pair, runs, prev>>
vars == <<tvars, dvars>>

----------------------------------------------------------------------------
(* String literals of the source.                                          *)

\* the f-string of lines 12-23 up to {title}
HtmlHeadBeforeTitle ==
    <<"<","!","D","O","C","T","Y","P","E"," ","h","t","m","l",">","\n","<","h","t","m","l"," ",
      "l","a","n","g","=","\"","e","n","\"",">","\n","<","h","e","a","d",">","\n"," "," "," ",
      " ","<","m","e","t","a"," ","c","h","a","r","s","e","t","=","\"","U","T","F","-","8","\"",
      ">","\n"," "," "," "," ","<","m","e","t","a"," ","n","a","m","e","=","\"","v","i","e","w",
      "p","o","r","t","\""," ","c","o","n","t","e","n","t","=","\"","w","i","d","t","h","=","d",
      "e","v","i","c","e","-","w","i","d","t","h",","," ","i","n","i","t","i","a","l","-","s",
      "c","a","l","e","=","1",".","0","\"",">","\n"," "," "," "," ","<","t","i","t","l","e",">">>

\* the f-string of lines 12-23 after {title}
HtmlHeadAfterTitle ==
    <<" ","-"," ","T","a","r","o","t"," ","D","e","c","k"," ","A","p","p","<","/","t","i","t",
      "l","e",">","\n"," "," "," "," ","<","l","i","n","k"," ","r","e","l","=","\"","s","t","y",
      "l","e","s","h","e","e","t","\""," ","h","r","e","f","=","\"","s","t","y","l","e",".","c",
      "s","s","\"",">","\n","<","/","h","e","a","d",">","\n","<","b","o","d","y",">","\n"," ",
      " "," "," ","<","d","i","v"," ","c","l","a","s","s","=","\"","c","o","n","t","a","i","n",
      "e","r","\"",">","\n"," "," "," "," "," "," "," "," ","<","a"," ","h","r","e","f","=",
      "\"","i","n","d","e","x",".","h","t","m","l","\""," ","c","l","a","s","s","=","\"","b",
      "a","c","k","-","l","i","n","k","\"",">","←"," ","B","a","c","k"," ","t","o"," ","L","e",
      "g","a","l"," ","D","o","c","u","m","e","n","t","s","<","/","a",">","\n">>

\* the string of lines 63-70
HtmlFooter ==
    <<"\n"," "," "," "," "," "," "," "," ","<","f","o","o","t","e","r",">","\n"," "," "," "," ",
      " "," "," "," "," "," "," "," ","<","p",">","T","a","r","o","t"," ","D","e","c","k"," ",
      "A","p","p"," ","©"," ","2","0","2","6","<","/","p",">","\n"," "," "," "," "," "," "," ",
      " ","<","/","f","o","o","t","e","r",">","\n"," "," "," "," ","<","/","d","i","v",">","\n",
      "<","/","b","o","d","y",">","\n","<","/","h","t","m","l",">","\n">>

H1Prefix == <<"#"," ">>
H2Prefix == <<"#","#"," ">>
H3Prefix == <<"#","#","#"," ">>
LiPrefix == <<"-"," ">>
H1Open == <<"<","h","1",">">>
H1Close == <<"<","/","h","1",">">>
H2Open == <<"<","h","2",">">>
H2Close == <<"<","/","h","2",">">>
H3Open == <<"<","h","3",">">>
H3Close == <<"<","/","h","3",">">>
BoldMark == <<"*","*">>
ItalicMark == <<"*">>
StrongOpen == <<"<","s","t","r","o","n","g",">">>
StrongClose == <<"<","/","s","t","r","o","n","g",">">>
EmOpen == <<"<","e","m",">">>
EmClose == <<"<","/","e","m",">">>
LiOpen == <<"<","l","i",">">>
LiClose == <<"<","/","l","i",">">>
UlOpen == <<"<","u","l",">">>
UlClose == <<"<","/","u","l",">">>
POpen == <<"<","p",">">>
PClose == <<"<","/","p",">">>
NL == <<"\n">>
SP == <<" ">>
LT == <<"<">>

----------------------------------------------------------------------------
(* Bounds and inputs.                                                      *)

\* Largest number of lines of a generated input document.
MaxLines == 2

\* Largest number of runs of main in a row.
MaxRuns == 2

\* The lines generated documents are made of: blank and whitespace-only
\* lines, plain text (with surrounding spaces), the three header levels, a
\* header marker with nothing after it, a header with emphasis, list items, lines that start with
\* bold or italic, and a line that starts with '<'.
LineChoices ==
    { <<>>,
      <<" ">>,
      <<"a">>,
      <<" ","b"," ">>,
      <<"#"," ","a">>,
      <<"#","#"," ","a">>,
      <<"#","#","#"," ","a">>,
      <<"#"," ">>,
      <<"#"," ","*","a","*">>,
      <<"-"," ","a">>,
      <<"-"," ","*","b","*">>,
      <<"*","*","a","*","*"," ","b">>,
      <<"a"," ","*","b","*">>,
      <<"<","a">> }

----------------------------------------------------------------------------
(* Strings.                                                                *)

Min(S) == CHOOSE x \in S : \A y \in S : x <= y
Max(S) == CHOOSE x \in S : \A y \in S : x >= y

\* s[i:i+len(p)] == p
MatchAt(s, i, p) ==
    /\ i + Len(p) - 1 <= Len(s)
    /\ SubSeq(s, i, i + Len(p) - 1) = p

\* s.startswith(p)
StartsWith(s, p) == MatchAt(s, 1, p)

\* s.endswith(p)
EndsWith(s, p) == Len(s) >= Len(p) /\ MatchAt(s, Len(s) - Len(p) + 1, p)

\* p in s
Contains(s, p) == \E i \in 1..(Len(s) + 1) : MatchAt(s, i, p)

\* The characters str.strip() removes from both ends.
Whitespace == {" ", "\t", "\n", "\r", "\f"}

\* s.strip()
Strip(s) ==
    LET keep == {k \in 1..Len(s) : s[k] \notin Whitespace}
    IN  IF keep = {} THEN <<>> ELSE SubSeq(s, Min(keep), Max(keep))

\* Position of the first '\n' at or after i, or len(s)+1: where '.' stops
\* and where '$' matches under re.MULTILINE.
LineEnd(s, i) ==
    LET nls == {k \in i..Len(s) : s[k] = "\n"}
    IN  IF nls = {} THEN Len(s) + 1 ELSE Min(nls)

RECURSIVE SplitFrom(_, _)
SplitFrom(s, i) ==
    LET e == LineEnd(s, i)
    IN  IF e > Len(s)
        THEN <<SubSeq(s, i, e - 1)>>
        ELSE <<SubSeq(s, i, e - 1)>> \o SplitFrom(s, e + 1)

\* s.split('\n')
Split(s) == SplitFrom(s, 1)

\* sep.join(parts)
RECURSIVE Join(_, _)
Join(sep, parts) ==
    IF parts = <<>> THEN <<>>
    ELSE IF Len(parts) = 1 THEN parts[1]
    ELSE parts[1] \o sep \o Join(sep, Tail(parts))

\* s.replace(old, new), old non-empty: leftmost non-overlapping occurrences.
RECURSIVE ReplaceFrom(_, _, _, _)
ReplaceFrom(s, i, old, new) ==
    IF i > Len(s) THEN <<>>
    ELSE IF MatchAt(s, i, old)
         THEN new \o ReplaceFrom(s, i + Len(old), old, new)
         ELSE <<s[i]>> \o ReplaceFrom(s, i + 1, old, new)

Replace(s, old, new) == ReplaceFrom(s, 1, old, new)

----------------------------------------------------------------------------
(* The regular-expression substitutions of markdown_to_html_simple.        *)

\* re.sub(r'^<prefix>(.+)$', r'<open>\1<close>', s, flags=re.MULTILINE),
\* scanning from the line that starts at i: '.' does not match '\n', so the
\* greedy group is the rest of the line and must hold one character at least.
RECURSIVE ReSubLineFrom(_, _, _, _, _)
ReSubLineFrom(s, i, prefix, open, close) ==
    LET e   == LineEnd(s, i)
        ln  == SubSeq(s, i, e - 1)
        new == IF StartsWith(ln, prefix) /\ Len(ln) > Len(prefix)
               THEN open \o SubSeq(ln, Len(prefix) + 1, Len(ln)) \o close
               ELSE ln
    IN  IF e > Len(s)
        THEN new
        ELSE new \o NL \o ReSubLineFrom(s, e + 1, prefix, open, close)

ReSubLine(s, prefix, open, close) == ReSubLineFrom(s, 1, prefix, open, close)

\* re.sub(r'<mark>(.+?)<mark>', r'<open>\1<close>', s), scanning from i: the
\* lazy group is the shortest non-empty run without '\n' that is followed by
\* the closing mark; the scan resumes after the match.
RECURSIVE ReSubSpanFrom(_, _, _, _, _)
ReSubSpanFrom(s, i, mark, open, close) ==
    IF i > Len(s) THEN <<>>
    ELSE
      LET ends == {j \in (i + Len(mark) + 1)..Len(s) :
                      /\ MatchAt(s, j, mark)
                      /\ \A k \in (i + Len(mark))..(j - 1) : s[k] # "\n"}
      IN  IF MatchAt(s, i, mark) /\ ends # {}
          THEN LET j == Min(ends)
               IN  open \o SubSeq(s, i + Len(mark), j - 1) \o close
                     \o ReSubSpanFrom(s, j + Len(mark), mark, open, close)
          ELSE <<s[i]>> \o ReSubSpanFrom(s, i + 1, mark, open, close)

ReSubSpan(s, mark, open, close) == ReSubSpanFrom(s, 1, mark, open, close)

\* re.sub(r'(<first>.*<last>)', r'<open>\1<close>', s, flags=re.DOTALL),
\* scanning from i: the greedy '.*' crosses line breaks and runs to the last
\* occurrence of <last> in the text.
RECURSIVE ReSubGreedyFrom(_, _, _, _, _, _)
ReSubGreedyFrom(s, i, first, last, open, close) ==
    IF i > Len(s) THEN <<>>
    ELSE
      LET ends == {j \in (i + Len(first))..Len(s) : MatchAt(s, j, last)}
      IN  IF MatchAt(s, i, first) /\ ends # {}
          THEN LET j == Max(ends)
               IN  open \o SubSeq(s, i, j + Len(last) - 1) \o close
                     \o ReSubGreedyFrom(s, j + Len(last), first, last, open, close)
          ELSE <<s[i]>> \o ReSubGreedyFrom(s, i + 1, first, last, open, close)

ReSubGreedy(s, first, last, open, close) ==
    ReSubGreedyFrom(s, 1, first, last, open, close)

\* line 26 with the space after '#' left out of the pattern.
ConvertH1Loose(s) == ReSubLine(s, <<"#">>, H1Open, H1Close)

\* line 26
ConvertH1(s) == ReSubLine(s, H1Prefix, H1Open, H1Close)
\* line 27
ConvertH2(s) == ReSubLine(s, H2Prefix, H2Open, H2Close)
\* line 28
ConvertH3(s) == ReSubLine(s, H3Prefix, H3Open, H3Close)
\* line 31
ConvertBold(s) == ReSubSpan(s, BoldMark, StrongOpen, StrongClose)
\* line 34
ConvertItalic(s) == ReSubSpan(s, ItalicMark, EmOpen, EmClose)
\* line 37 without flags=re.MULTILINE: '^' and '$' match at the two ends of
\* the text only, so nothing matches in a text of several lines.
ConvertListItemsNoMultiline(s) ==
    IF \E k \in 1..Len(s) : s[k] = "\n" THEN s
    ELSE ReSubLine(s, LiPrefix, LiOpen, LiClose)

\* line 37
ConvertListItems(s) == ReSubLine(s, LiPrefix, LiOpen, LiClose)
\* line 38 without flags=re.DOTALL: '.*' stops at the line break, so every
\* line that starts with a list item is wrapped on its own.
WrapListPerLine(s) == ReSubLine(s, LiOpen, UlOpen \o LiOpen, UlClose)

\* line 38
WrapList(s) == ReSubGreedy(s, LiOpen, LiClose, UlOpen, UlClose)

\* lines 26-38
Substitute(s) ==
    WrapList(ConvertListItems(ConvertItalic(ConvertBold(
        ConvertH3(ConvertH2(ConvertH1(s)))))))

----------------------------------------------------------------------------
(* Paragraph assembly, lines 41-59.                                        *)

\* line 48 joining with the empty string.
ParagraphOfNoSpace(cp) == POpen \o Join(<<>>, cp) \o PClose

\* '<p>' + ' '.join(current_para) + '</p>'
ParagraphOf(cp) == POpen \o Join(SP, cp) \o PClose

\* if current_para: paragraphs.append(...)
FlushPara(ps, cp) == IF cp # <<>> THEN Append(ps, ParagraphOf(cp)) ELSE ps

\* line.strip() == ''
IsBlank(l) == Strip(l) = <<>>

\* line.strip().startswith('<')
IsHtmlLine(l) == StartsWith(Strip(l), LT)

\* The loop body without the flush of lines 53-55 before a '<' line.
LoopBodyNoFlushBeforeHtml(ps, cp, l) ==
    IF IsBlank(l)
    THEN IF cp # <<>>
         THEN [paragraphs |-> Append(ps, ParagraphOf(cp)), current_para |-> <<>>]
         ELSE [paragraphs |-> ps, current_para |-> cp]
    ELSE IF ~IsHtmlLine(l)
         THEN [paragraphs |-> ps, current_para |-> Append(cp, Strip(l))]
         ELSE [paragraphs |-> Append(ps, l), current_para |-> cp]

\* One iteration of the for loop of lines 45-56 on line l.
LoopBody(ps, cp, l) ==
    IF IsBlank(l)
    THEN IF cp # <<>>
         THEN [paragraphs |-> Append(ps, ParagraphOf(cp)), current_para |-> <<>>]
         ELSE [paragraphs |-> ps, current_para |-> cp]
    ELSE IF ~IsHtmlLine(l)
         THEN [paragraphs |-> ps, current_para |-> Append(cp, Strip(l))]
         ELSE [paragraphs |-> Append(FlushPara(ps, cp), l), current_para |-> <<>>]

\* The for loop of lines 45-56 from position i on.
RECURSIVE LoopFrom(_, _, _, _)
LoopFrom(ls, i, ps, cp) ==
    IF i > Len(ls) THEN [paragraphs |-> ps, current_para |-> cp]
    ELSE LET r == LoopBody(ps, cp, ls[i])
         IN  LoopFrom(ls, i + 1, r.paragraphs, r.current_para)

\* lines 41-59: the body lines of a converted text.
AssembleParagraphs(s) ==
    LET r == LoopFrom(Split(s), 1, <<>>, <<>>)
    IN  FlushPara(r.paragraphs, r.current_para)

\* lines 12-23 with the title left out of the head.
HtmlHeadNoTitle(t) == HtmlHeadBeforeTitle \o HtmlHeadAfterTitle

\* lines 12-23
HtmlHead(t) == HtmlHeadBeforeTitle \o t \o HtmlHeadAfterTitle

\* markdown_to_html_simple(md_content, title), lines 10-71.
markdown_to_html_simple(c, t) ==
    HtmlHead(t) \o Join(NL, AssembleParagraphs(Substitute(c))) \o HtmlFooter

----------------------------------------------------------------------------
(* Input documents.                                                        *)

\* a level-1 header
HelloContent == <<"#"," ","H","e","l","l","o">>
\* inline emphasis mixed with plain text
BoldItalicContent == <<"*","*","b","o","l","d","*","*"," ","a","n","d"," ","*","i","t","a","l","i","c","*">>
\* the same, starting with the italic span
ItalicBoldContent == <<"*","i","t","a","l","i","c","*"," ","a","n","d"," ","*","*","b","o","l","d","*","*">>
\* a LICENSE file: a header and one line of text
GrantContent == <<"#"," ","G","r","a","n","t","\n","Y","o","u"," ","m","a","y"," ","u","s","e"," ","t","h","i",
  "s"," ","s","o","f","t","w","a","r","e",".">>
TitleT == <<"T">>
\* titles of lines 77-80
PrivacyTitle == <<"P","r","i","v","a","c","y"," ","P","o","l","i","c","y">>
TermsTitle == <<"T","e","r","m","s"," ","o","f"," ","S","e","r","v","i","c","e">>
LicenseTitle == <<"L","i","c","e","n","s","e">>
CopyrightTitle == <<"C","o","p","y","r","i","g","h","t">>
\* filenames of lines 77-80
PrivacyFile == <<"P","R","I","V","A","C","Y","_","P","O","L","I","C","Y",".","m","d">>
TermsFile == <<"T","E","R","M","S","_","O","F","_","S","E","R","V","I","C","E",".","m","d">>
LicenseFile == <<"L","I","C","E","N","S","E">>
CopyrightFile == <<"C","O","P","Y","R","I","G","H","T">>
\* arguments of the replace calls of line 88
MdSuffix == <<".","m","d">>
HtmlSuffix == <<".","h","t","m","l">>
LicenseHtml == <<"L","I","C","E","N","S","E",".","h","t","m","l">>
CopyrightHtml == <<"C","O","P","Y","R","I","G","H","T",".","h","t","m","l">>
\* the f-strings of lines 100 and 102
ConvertedWord == <<"C","o","n","v","e","r","t","e","d"," ">>
ToWord == <<" ","t","o"," ">>
WarningWord == <<"W","a","r","n","i","n","g",":"," ">>
NotFoundWord == <<" ","n","o","t"," ","f","o","u","n","d">>

\* two paragraphs separated by a blank line
TwoRunsContent == <<"a","\n","\n","a">>
\* two list blocks with a header between them
SplitListContent == <<"-"," ","a","\n","#"," ","a","\n","-"," ","a">>
\* text, a line that starts with '<', text
MixedContent == <<"a","\n","<","a","\n"," ","b"," ">>

ExampleInputs ==
    {<<>>, HelloContent, BoldItalicContent, ItalicBoldContent, GrantContent,
     TwoRunsContent, SplitListContent, MixedContent}

\* Documents of 1..MaxLines lines of LineChoices, and the examples.
Inputs ==
    ExampleInputs \cup
    { Join(NL, ls) : ls \in UNION { [1..n -> LineChoices] : n \in 1..MaxLines } }

\* Every document is converted under the title T, the examples also under
\* the title of the LICENSE pair.
Calls ==
    (Inputs \X {TitleT}) \cup (ExampleInputs \X {LicenseTitle})

----------------------------------------------------------------------------
(* markdown_to_html_simple as a sequence of statements.                    *)

\* main is not running.
DriverIdle ==
    /\ root_fs = <<>>
    /\ docs_dir = FALSE
    /\ docs_fs = <<>>
    /\ console = <<>>
    /\ written = {}
    /\ mpc = "idle"
    /\ pair = 1
    /\ runs = 0
    /\ prev = <<>>

Init ==
    /\ \E call \in Calls :
          /\ md_arg = call[1]
          /\ title = call[2]
    /\ md_content = md_arg
    /\ html = <<>>
    /\ lines = <<>>
    /\ line = 1
    /\ current_para = <<>>
    /\ paragraphs = <<>>
    /\ pc = "head"
    /\ DriverIdle

\* A re.sub statement: md_content = re.sub(..., md_content), new being the
\* value of the right-hand side.
Rewrite(from, to, new) ==
    /\ pc = from
    /\ md_content' = new
    /\ pc' = to
    /\ UNCHANGED <<md_arg, title, html, lines, line, current_para, paragraphs>>
    /\ UNCHANGED dvars

\* lines 12-23
BuildHead ==
    /\ pc = "head"
    /\ html' = HtmlHead(title)
    /\ pc' = "h1"
    /\ UNCHANGED <<md_arg, title, md_content, lines, line, current_para, paragraphs>>
    /\ UNCHANGED dvars

StepH1 == Rewrite("h1", "h2", ConvertH1(md_content))
StepH2 == Rewrite("h2", "h3", ConvertH2(md_content))
StepH3 == Rewrite("h3", "bold", ConvertH3(md_content))
StepBold == Rewrite("bold", "italic", ConvertBold(md_content))
StepItalic == Rewrite("italic", "li", ConvertItalic(md_content))
StepListItems == Rewrite("li", "ul", ConvertListItems(md_content))
StepWrapList == Rewrite("ul", "split", WrapList(md_content))

\* lines 41-43
StepSplit ==
    /\ pc = "split"
    /\ lines' = Split(md_content)
    /\ paragraphs' = <<>>
    /\ current_para' = <<>>
    /\ line' = 1
    /\ pc' = "loop"
    /\ UNCHANGED <<md_arg, title, md_content, html>>
    /\ UNCHANGED dvars

\* lines 45-56: one iteration of the loop.
StepLine ==
    /\ pc = "loop"
    /\ line <= Len(lines)
    /\ LET r == LoopBody(paragraphs, current_para, lines[line])
       IN  /\ paragraphs' = r.paragraphs
           /\ current_para' = r.current_para
    /\ line' = line + 1
    /\ UNCHANGED <<md_arg, title, md_content, html, lines, pc>>
    /\ UNCHANGED dvars

\* lines 58-59: the flush after the loop.
StepFinalFlush ==
    /\ pc = "loop"
    /\ line > Len(lines)
    /\ paragraphs' = FlushPara(paragraphs, current_para)
    /\ pc' = "join"
    /\ UNCHANGED <<md_arg, title, md_content, html, lines, line, current_para>>
    /\ UNCHANGED dvars

\* line 61
StepJoin ==
    /\ pc = "join"
    /\ html' = html \o Join(NL, paragraphs)
    /\ pc' = "footer"
    /\ UNCHANGED <<md_arg, title, md_content, lines, line, current_para, paragraphs>>
    /\ UNCHANGED dvars

\* lines 63-71
StepFooter ==
    /\ pc = "footer"
    /\ html' = html \o HtmlFooter
    /\ pc' = "done"
    /\ UNCHANGED <<md_arg, title, md_content, lines, line, current_para, paragraphs>>
    /\ UNCHANGED dvars

Next ==
    \/ BuildHead
    \/ StepH1
    \/ StepH2
    \/ StepH3
    \/ StepBold
    \/ StepItalic
    \/ StepListItems
    \/ StepWrapList
    \/ StepSplit
    \/ StepLine
    \/ StepFinalFlush
    \/ StepJoin
    \/ StepFooter

Spec == Init /\ [][Next]_vars


----------------------------------------------------------------------------
(* main, lines 73-102.                                                     *)

\* lines 76-81
files_to_convert ==
    << <<PrivacyFile, PrivacyTitle>>,
       <<TermsFile, TermsTitle>>,
       <<LicenseFile, LicenseTitle>>,
       <<CopyrightFile, CopyrightTitle>> >>

\* line 88 with the first replace call only.
html_filename_md_only(filename) == Replace(filename, MdSuffix, HtmlSuffix)

\* line 88
html_filename(filename) ==
    Replace(Replace(Replace(filename, MdSuffix, HtmlSuffix),
                    LicenseFile, LicenseHtml),
            CopyrightFile, CopyrightHtml)

\* line 100
ConvertedLine(filename) ==
    ConvertedWord \o filename \o ToWord \o html_filename(filename)

\* line 102
WarningLine(filename) == WarningWord \o filename \o NotFoundWord

\* The file opened with mode 'a': the text is added to what the file holds.
WriteFileAppend(fs, name, text) ==
    [n \in (DOMAIN fs) \cup {name} |->
        IF n # name THEN fs[n]
        ELSE IF name \in DOMAIN fs THEN fs[name] \o text ELSE text]

\* open(path, 'w') ... f.write(text): the file is created or truncated.
WriteFile(fs, name, text) ==
    [n \in (DOMAIN fs) \cup {name} |-> IF n = name THEN text ELSE fs[n]]

\* Contents of the source files of a run.
ListContent == <<"-"," ","a","\n","-"," ","b">>
SourceContents == {GrantContent, ListContent}

\* Content of an output file left by something other than this program.
StaleContent == <<"o","l","d">>

SourceNames == {files_to_convert[i][1] : i \in DOMAIN files_to_convert}
OutputNames == {html_filename(f) : f \in SourceNames}

\* markdown_to_html_simple is not running.
TransformerIdle ==
    /\ md_arg = <<>>
    /\ title = <<>>
    /\ md_content = <<>>
    /\ html = <<>>
    /\ lines = <<>>
    /\ line = 1
    /\ current_para = <<>>
    /\ paragraphs = <<>>
    /\ pc = "idle"

\* main has been started on a filesystem that holds any subset of the four
\* sources and any subset of the four outputs, the latter only when the
\* docs directory exists.
DriverInit ==
    /\ root_fs \in UNION { [D -> SourceContents] : D \in SUBSET SourceNames }
    /\ docs_dir \in BOOLEAN
    /\ docs_fs \in UNION { [D -> {StaleContent}] : D \in SUBSET OutputNames }
    /\ (~docs_dir => DOMAIN docs_fs = {})
    /\ console = <<>>
    /\ written = {}
    /\ mpc = "mkdir"
    /\ pair = 1
    /\ runs = 1
    /\ prev = <<>>
    /\ TransformerIdle

\* lines 83-84: docs_dir.mkdir(exist_ok=True)
MkDir ==
    /\ mpc = "mkdir"
    /\ docs_dir' = TRUE
    /\ mpc' = "loop"
    /\ pair' = 1
    /\ UNCHANGED <<root_fs, docs_fs, console, written, runs, prev>>
    /\ UNCHANGED tvars

\* lines 86-100: a pair whose source exists.
ConvertFile ==
    /\ mpc = "loop"
    /\ pair <= Len(files_to_convert)
    /\ LET filename == files_to_convert[pair][1]
           ftitle   == files_to_convert[pair][2]
       IN  /\ filename \in DOMAIN root_fs
           /\ docs_fs' = WriteFile(docs_fs, html_filename(filename),
                                   markdown_to_html_simple(root_fs[filename], ftitle))
           /\ written' = written \cup {html_filename(filename)}
           /\ console' = Append(console, ConvertedLine(filename))
    /\ pair' = pair + 1
    /\ UNCHANGED <<root_fs, docs_dir, mpc, runs, prev>>
    /\ UNCHANGED tvars

\* The else branch of lines 101-102 leaving the loop after the warning.
WarnMissingStops ==
    /\ mpc = "loop"
    /\ pair <= Len(files_to_convert)
    /\ files_to_convert[pair][1] \notin DOMAIN root_fs
    /\ console' = Append(console, WarningLine(files_to_convert[pair][1]))
    /\ mpc' = "done"
    /\ UNCHANGED <<root_fs, docs_dir, docs_fs, written, pair, runs, prev>>
    /\ UNCHANGED tvars

\* lines 86-91, 101-102: a pair whose source is absent.
WarnMissing ==
    /\ mpc = "loop"
    /\ pair <= Len(files_to_convert)
    /\ files_to_convert[pair][1] \notin DOMAIN root_fs
    /\ console' = Append(console, WarningLine(files_to_convert[pair][1]))
    /\ pair' = pair + 1
    /\ UNCHANGED <<root_fs, docs_dir, docs_fs, written, mpc, runs, prev>>
    /\ UNCHANGED tvars

\* line 86: the list is exhausted and main returns.
Return ==
    /\ mpc = "loop"
    /\ pair > Len(files_to_convert)
    /\ mpc' = "done"
    /\ UNCHANGED <<root_fs, docs_dir, docs_fs, console, written, pair, runs, prev>>
    /\ UNCHANGED tvars

\* lines 104-105: the script is run again on the filesystem the last run left.
RunAgain ==
    /\ mpc = "done"
    /\ runs < MaxRuns
    /\ prev' = <<[console |-> console, docs_dir |-> docs_dir,
                 docs_fs |-> docs_fs, root_fs |-> root_fs]>>
    /\ console' = <<>>
    /\ written' = {}
    /\ mpc' = "mkdir"
    /\ runs' = runs + 1
    /\ UNCHANGED <<root_fs, docs_dir, docs_fs, pair>>
    /\ UNCHANGED tvars

DriverNext ==
    \/ MkDir
    \/ ConvertFile
    \/ WarnMissing
    \/ Return
    \/ RunAgain

DriverSpec == DriverInit /\ [][DriverNext]_vars

----------------------------------------------------------------------------
(* Properties of markdown_to_html_simple, checked under Spec.              *)

\* Number of occurrences of p in s.
Count(s, p) == Cardinality({i \in 1..Len(s) : MatchAt(s, i, p)})

\* The body as line 61 joins it.
Body == Join(NL, paragraphs)

\* A line that is neither blank nor starts (after spaces) with '<'.
IsTextLine(l) == Strip(l) # <<>> /\ Strip(l)[1] # "<"

\* Last line of the maximal run of text lines of ls that holds line k.
RunEnd(ls, k) == Max({j \in k..Len(ls) : \A m \in k..j : IsTextLine(ls[m])})

\* What paragraph assembly owes for the lines ls from k on: one paragraph
\* per maximal run of text lines, wrapping the stripped lines joined by
\* single spaces; a '<' line as it is; nothing for a blank line.
RECURSIVE ExpectedFrom(_, _)
ExpectedFrom(ls, k) ==
    IF k > Len(ls) THEN <<>>
    ELSE IF Strip(ls[k]) = <<>> THEN ExpectedFrom(ls, k + 1)
    ELSE IF ~IsTextLine(ls[k]) THEN <<ls[k]>> \o ExpectedFrom(ls, k + 1)
    ELSE LET e == RunEnd(ls, k)
         IN  << <<"<","p",">">>
                  \o Join(<<" ">>, [m \in 1..(e - k + 1) |-> Strip(ls[k + m - 1])])
                  \o <<"<","/","p",">">> >>
             \o ExpectedFrom(ls, e + 1)

ExpectedBody(ls) == ExpectedFrom(ls, 1)

\* The buffer as the paragraph a flush would emit now.
Pending ==
    IF current_para = <<>> THEN <<>>
    ELSE << <<"<","p",">">> \o Join(<<" ">>, current_para) \o <<"<","/","p",">">> >>

\* C10: stepping through the lines, the buffer is flushed as one paragraph
\* (its lines joined by single spaces) exactly at a blank line, at a line
\* whose first non-space character is '<' and at the end of the input; a
\* '<' line is emitted verbatim right after that flush; no empty paragraph
\* is emitted; every non-blank line appears exactly once, in input order.
C10_ParagraphAssembly ==
    /\ pc = "loop" =>
         /\ paragraphs \o Pending = ExpectedBody(SubSeq(lines, 1, line - 1))
         /\ line > 1 =>
              LET l == lines[line - 1]
              IN  /\ IsTextLine(l) =>
                        /\ current_para # <<>>
                        /\ current_para[Len(current_para)] = Strip(l)
                  /\ ~IsTextLine(l) => current_para = <<>>
                  /\ (Strip(l) # <<>> /\ ~IsTextLine(l)) =>
                        /\ paragraphs # <<>>
                        /\ paragraphs[Len(paragraphs)] = l
    /\ pc \in {"join", "footer", "done"} => paragraphs = ExpectedBody(lines)
    /\ \A k \in DOMAIN paragraphs : paragraphs[k] # <<"<","p",">","<","/","p",">">>

\* C10 witness: a paragraph, a verbatim '<' line and a second paragraph.
C10_Witness ==
    /\ pc = "done"
    /\ lines = << <<"a">>, <<"<","a">>, <<" ","b"," ">> >>
    /\ paragraphs = << <<"<","p",">","a","<","/","p",">">>,
                       <<"<","a">>,
                       <<"<","p",">","b","<","/","p",">">> >>

\* A text without markdown syntax: no '*', no line that starts with a
\* header or list marker, no line whose first non-space character is '<'.
NoMarkdown(s) ==
    /\ \A k \in 1..Len(s) : s[k] # "*"
    /\ \A k \in DOMAIN Split(s) :
          LET l == Split(s)[k]
          IN  /\ ~StartsWith(l, <<"#"," ">>)
              /\ ~StartsWith(l, <<"#","#"," ">>)
              /\ ~StartsWith(l, <<"#","#","#"," ">>)
              /\ ~StartsWith(l, <<"-"," ">>)
              /\ ~StartsWith(Strip(l), <<"<">>)

\* The non-blank lines of ls, stripped.
RECURSIVE StrippedNonBlank(_)
StrippedNonBlank(ls) ==
    IF ls = <<>> THEN <<>>
    ELSE IF Strip(ls[1]) = <<>> THEN StrippedNonBlank(Tail(ls))
    ELSE <<Strip(ls[1])>> \o StrippedNonBlank(Tail(ls))

\* Number of maximal runs of consecutive non-blank lines of ls.
NumRuns(ls) ==
    Cardinality({k \in DOMAIN ls :
                    /\ Strip(ls[k]) # <<>>
                    /\ (k = 1 \/ Strip(ls[k - 1]) = <<>>)})

HeaderLevel(l) ==
    IF StartsWith(l, <<"#"," ">>) /\ Len(l) > 2 THEN 1
    ELSE IF StartsWith(l, <<"#","#"," ">>) /\ Len(l) > 3 THEN 2
    ELSE IF StartsWith(l, <<"#","#","#"," ">>) /\ Len(l) > 4 THEN 3
    ELSE 0

HeaderOpen(n) == <<"<", "h", <<"1","2","3">>[n], ">">>
HeaderClose(n) == <<"<", "/", "h", <<"1","2","3">>[n], ">">>

\* C7: every full line of the input that is "# ", "## " or "### " followed by
\* one character at least is rewritten by the header step to the heading tag
\* of its own level wrapping exactly the rest of the line, and paragraph
\* assembly emits the heading line as a body line of its own, outside any
\* paragraph.
C7_Headers ==
    /\ pc = "bold" =>
         /\ Len(Split(md_content)) = Len(Split(md_arg))
         /\ \A k \in DOMAIN Split(md_arg) :
               LET l == Split(md_arg)[k]
                   n == HeaderLevel(l)
               IN  n > 0 =>
                     Split(md_content)[k] =
                        HeaderOpen(n) \o SubSeq(l, n + 2, Len(l)) \o HeaderClose(n)
    /\ (pc = "loop" /\ line > 1) =>
         /\ Len(lines) = Len(Split(md_arg))
         /\ LET n == HeaderLevel(Split(md_arg)[line - 1])
            IN  n > 0 =>
                  /\ StartsWith(lines[line - 1], HeaderOpen(n))
                  /\ EndsWith(lines[line - 1], HeaderClose(n))
                  /\ paragraphs # <<>>
                  /\ paragraphs[Len(paragraphs)] = lines[line - 1]
                  /\ current_para = <<>>

\* C7 witness: a level-2 header on the second line was emitted as its own
\* body line after the paragraph of the first line.
C7_Witness ==
    /\ pc = "done"
    /\ md_arg = <<"a","\n","#","#"," ","a">>
    /\ paragraphs = << <<"<","p",">","a","<","/","p",">">>,
                       <<"<","h","2",">","a","<","/","h","2",">">> >>

\* The text with <ul> put directly before its first <li> and </ul> directly
\* after its last </li>, when a </li> follows the first <li>; else the text.
ExpectedWrap(t) ==
    LET opens  == {i \in 1..Len(t) : MatchAt(t, i, <<"<","l","i",">">>)}
        closes == {j \in 1..Len(t) : MatchAt(t, j, <<"<","/","l","i",">">>)}
    IN  IF opens = {} \/ closes = {} THEN t
        ELSE IF Max(closes) < Min(opens) + 4 THEN t
        ELSE SubSeq(t, 1, Min(opens) - 1)
               \o <<"<","u","l",">">>
               \o SubSeq(t, Min(opens), Max(closes) + 4)
               \o <<"<","/","u","l",">">>
               \o SubSeq(t, Max(closes) + 5, Len(t))

\* C9: list wrapping inserts at most one <ul> pair per document: <ul>
\* directly before the first list-item tag of the whole text and </ul>
\* directly after the last one, so list blocks separated by blank lines,
\* headers or plain text end up in one list together with what lies between
\* them; without a list-item tag nothing is inserted.
C9_ListWrap ==
    [][ pc = "ul" =>
          /\ md_content' = ExpectedWrap(md_content)
          /\ Count(md_content', <<"<","u","l",">">>) <= 1
          /\ Count(md_content', <<"<","/","u","l",">">>) <= 1
          /\ Count(md_content, <<"<","l","i",">">>) = 0 => md_content' = md_content
      ]_vars

\* C9 witness: two list blocks with a header between them, in one list.
C9_Witness ==
    /\ pc = "split"
    /\ md_arg = <<"-"," ","a","\n","#"," ","a","\n","-"," ","a">>
    /\ md_content = <<"<","u","l",">","<","l","i",">","a","<","/","l","i",">","\n","<","h","1",">","a","<","/","h","1",">","\n","<","l","i",">","a","<","/","l","i",">","<","/","u","l",">">>

\* A document whose lines all are "- " followed by one character at least.
IsListDoc(s) ==
    \A k \in DOMAIN Split(s) :
        StartsWith(Split(s)[k], <<"-"," ">>) /\ Len(Split(s)[k]) > 2

\* The list-item tag owed for the input line l: the rest of the line after
\* "- ", as the emphasis steps that run before the list step leave it.
ItemOf(l) ==
    <<"<","l","i",">">>
      \o ConvertItalic(ConvertBold(SubSeq(l, 3, Len(l))))
      \o <<"<","/","l","i",">">>

\* C3: n >= 1 consecutive "- " lines yield exactly n list-item tags, one
\* per line and in input order, each wrapping the rest of its line, all
\* inside exactly one unordered-list tag and none inside a paragraph tag.
C3_ListItems ==
    (pc = "done" /\ IsListDoc(md_arg)) =>
        LET ls == Split(md_arg)
        IN  /\ Body = <<"<","u","l",">">>
                        \o Join(<<"\n">>, [k \in DOMAIN ls |-> ItemOf(ls[k])])
                        \o <<"<","/","u","l",">">>
            /\ Count(Body, <<"<","l","i",">">>) = Len(ls)
            /\ Count(Body, <<"<","/","l","i",">">>) = Len(ls)
            /\ Count(Body, <<"<","u","l",">">>) = 1
            /\ Count(Body, <<"<","/","u","l",">">>) = 1
            /\ Count(Body, <<"<","p",">">>) = 0

\* C3 witness: "- a\n- *b*" became a list of the two items a and <em>b</em>.
C3_Witness ==
    /\ pc = "done"
    /\ md_arg = <<"-"," ","a","\n","-"," ","*","b","*">>
    /\ Body = <<"<","u","l",">","<","l","i",">","a","<","/","l","i",">","\n","<","l","i",">","<","e","m",">","b","<","/","e","m",">","<","/","l","i",">","<","/","u","l",">">>

\* C1: a single line that mixes inline emphasis with plain text becomes a
\* strong tag around the bold text and an em tag around the italic text with
\* the plain text between them, the whole line inside one paragraph tag,
\* also when the line begins with the bold or the italic span.
C1_EmphasisInParagraph ==
    /\ (pc = "done" /\ md_arg = BoldItalicContent) =>
          paragraphs = << <<"<","p",">","<","s","t","r","o","n","g",">","b","o","l","d","<","/","s","t","r","o","n","g",">"," ","a","n","d"," ","<","e","m",">","i","t","a","l","i","c","<","/","e","m",">","<","/","p",">">> >>
    /\ (pc = "done" /\ md_arg = ItalicBoldContent) =>
          paragraphs = << <<"<","p",">","<","e","m",">","i","t","a","l","i","c","<","/","e","m",">"," ","a","n","d"," ","<","s","t","r","o","n","g",">","b","o","l","d","<","/","s","t","r","o","n","g",">","<","/","p",">">> >>

FooterText == <<"T","a","r","o","t"," ","D","e","c","k"," ","A","p","p"," ","©"," ","2","0","2","6">>
BackLinkTarget == <<"<","a"," ","h","r","e","f","=","\"","i","n","d","e","x",".","h","t","m","l","\"">>
TitleSuffix == <<" ","-"," ","T","a","r","o","t"," ","D","e","c","k"," ","A","p","p","<","/","t","i","t","l","e",">">>

\* C4: markdown_to_html_simple returns for every content and title, the
\* empty content included, and the result is the fixed head with the title
\* interpolated as "{title} - Tarot Deck App" and the back-link to
\* index.html, then the body, then the fixed footer with
\* "Tarot Deck App (c) 2026"; head and footer do not depend on the content.
C4_Shell ==
    /\ pc \notin {"idle", "done"} => ENABLED Next
    /\ pc \notin {"idle", "head"} =>
          StartsWith(html, HtmlHeadBeforeTitle \o title \o HtmlHeadAfterTitle)
    /\ pc = "done" =>
          /\ html = HtmlHeadBeforeTitle \o title \o HtmlHeadAfterTitle
                      \o Body \o HtmlFooter
          /\ Contains(html, title \o TitleSuffix)
          /\ Contains(html, BackLinkTarget)
          /\ Contains(html, FooterText)

\* C4 witness: the empty content was converted to head and footer alone.
C4_Witness ==
    /\ pc = "done"
    /\ md_arg = <<>>
    /\ html = HtmlHeadBeforeTitle \o title \o HtmlHeadAfterTitle \o HtmlFooter

----------------------------------------------------------------------------
(* Properties of main, checked under DriverSpec.                           *)

\* The four pairs as the documentation names them: source, output, title,
\* success line, warning line.
ExpectedPairs ==
    << [source |-> <<"P","R","I","V","A","C","Y","_","P","O","L","I","C","Y",".","m","d">>,
        output |-> <<"P","R","I","V","A","C","Y","_","P","O","L","I","C","Y",".","h","t","m","l">>,
        title |-> <<"P","r","i","v","a","c","y"," ","P","o","l","i","c","y">>,
        success |-> <<"C","o","n","v","e","r","t","e","d"," ","P","R","I","V","A","C","Y","_","P","O","L","I","C","Y",".","m","d"," ","t","o"," ","P","R","I","V","A","C","Y","_","P","O","L","I","C","Y",".","h","t","m","l">>,
        warning |-> <<"W","a","r","n","i","n","g",":"," ","P","R","I","V","A","C","Y","_","P","O","L","I","C","Y",".","m","d"," ","n","o","t"," ","f","o","u","n","d">>],
       [source |-> <<"T","E","R","M","S","_","O","F","_","S","E","R","V","I","C","E",".","m","d">>,
        output |-> <<"T","E","R","M","S","_","O","F","_","S","E","R","V","I","C","E",".","h","t","m","l">>,
        title |-> <<"T","e","r","m","s"," ","o","f"," ","S","e","r","v","i","c","e">>,
        success |-> <<"C","o","n","v","e","r","t","e","d"," ","T","E","R","M","S","_","O","F","_","S","E","R","V","I","C","E",".","m","d"," ","t","o"," ","T","E","R","M","S","_","O","F","_","S","E","R","V","I","C","E",".","h","t","m","l">>,
        warning |-> <<"W","a","r","n","i","n","g",":"," ","T","E","R","M","S","_","O","F","_","S","E","R","V","I","C","E",".","m","d"," ","n","o","t"," ","f","o","u","n","d">>],
       [source |-> <<"L","I","C","E","N","S","E">>,
        output |-> <<"L","I","C","E","N","S","E",".","h","t","m","l">>,
        title |-> <<"L","i","c","e","n","s","e">>,
        success |-> <<"C","o","n","v","e","r","t","e","d"," ","L","I","C","E","N","S","E"," ","t","o"," ","L","I","C","E","N","S","E",".","h","t","m","l">>,
        warning |-> <<"W","a","r","n","i","n","g",":"," ","L","I","C","E","N","S","E"," ","n","o","t"," ","f","o","u","n","d">>],
       [source |-> <<"C","O","P","Y","R","I","G","H","T">>,
        output |-> <<"C","O","P","Y","R","I","G","H","T",".","h","t","m","l">>,
        title |-> <<"C","o","p","y","r","i","g","h","t">>,
        success |-> <<"C","o","n","v","e","r","t","e","d"," ","C","O","P","Y","R","I","G","H","T"," ","t","o"," ","C","O","P","Y","R","I","G","H","T",".","h","t","m","l">>,
        warning |-> <<"W","a","r","n","i","n","g",":"," ","C","O","P","Y","R","I","G","H","T"," ","n","o","t"," ","f","o","u","n","d">>] >>

\* The source of the pair the loop of main is at is absent.
SourceAbsent ==
    /\ mpc = "loop"
    /\ pair <= Len(ExpectedPairs)
    /\ ExpectedPairs[pair].source \notin DOMAIN root_fs

\* The console of a run, as far as it got.
ConsoleSoFar ==
    /\ mpc = "loop" =>
          /\ pair <= Len(ExpectedPairs) + 1
          /\ Len(console) = pair - 1
    /\ SourceAbsent => ENABLED WarnMissing
    /\ mpc \in {"loop", "done"} =>
          \A i \in DOMAIN console :
              console[i] = IF ExpectedPairs[i].source \in DOMAIN root_fs
                           THEN ExpectedPairs[i].success
                           ELSE ExpectedPairs[i].warning
    /\ mpc = "done" => Len(console) = Len(ExpectedPairs)

\* C5: whatever subset of the four sources is present, main goes through
\* the four pairs in list order and returns, printing exactly one line per
\* pair: the success line naming source and destination when the source
\* exists, the warning line naming the source when it is absent; an absent
\* source does not keep the later pairs from being processed (the step
\* taken at a pair, found or not, prints one line and moves to the next
\* pair, and main returns once the list is exhausted).
C5_OneLinePerPair ==
    /\ []ConsoleSoFar
    /\ [][(mpc = "loop" /\ pair <= Len(ExpectedPairs)) =>
            (mpc' = "loop" /\ pair' = pair + 1 /\ Len(console') = Len(console) + 1)]_vars
    /\ [][(mpc = "loop" /\ pair > Len(ExpectedPairs)) =>
            (mpc' = "done" /\ console' = console)]_vars

\* C5 witness: a run has ended in which the first and the third source were
\* absent and the second and the fourth present.
C5_Witness ==
    /\ mpc = "done"
    /\ DOMAIN root_fs = {ExpectedPairs[2].source, ExpectedPairs[4].source}
    /\ console = <<ExpectedPairs[1].warning, ExpectedPairs[2].success,
                   ExpectedPairs[3].warning, ExpectedPairs[4].success>>

GrantHeading == <<"<","h","1",">","G","r","a","n","t","<","/","h","1",">">>
GrantParagraph == <<"<","p",">","Y","o","u"," ","m","a","y"," ","u","s","e"," ","t","h","i","s"," ","s","o","f","t","w","a","r","e",".","<","/","p",">">>

\* C6: after a run of main the output directory exists, and for each pair
\* the output file (PRIVACY_POLICY.html, TERMS_OF_SERVICE.html, LICENSE.html,
\* COPYRIGHT.html) was written by this run if and only if its source
\* existed, with content markdown_to_html_simple(source content, title);
\* with no source present there are four warnings and no file is written;
\* with only LICENSE present, holding "# Grant\nYou may use this software.",
\* only LICENSE.html is written, with a level-1 heading Grant and a
\* paragraph holding the second line.
C6_Outputs ==
    mpc = "done" =>
        /\ docs_dir
        /\ written = {ExpectedPairs[i].output :
                         i \in {j \in DOMAIN ExpectedPairs :
                                   ExpectedPairs[j].source \in DOMAIN root_fs}}
        /\ \A i \in DOMAIN ExpectedPairs :
              ExpectedPairs[i].source \in DOMAIN root_fs =>
                  /\ ExpectedPairs[i].output \in DOMAIN docs_fs
                  /\ docs_fs[ExpectedPairs[i].output] =
                        markdown_to_html_simple(root_fs[ExpectedPairs[i].source],
                                                ExpectedPairs[i].title)
        /\ DOMAIN root_fs = {} =>
              /\ written = {}
              /\ console = [i \in DOMAIN ExpectedPairs |-> ExpectedPairs[i].warning]
        /\ (DOMAIN root_fs = {ExpectedPairs[3].source}
              /\ root_fs[ExpectedPairs[3].source] = GrantContent) =>
              /\ written = {ExpectedPairs[3].output}
              /\ Contains(docs_fs[ExpectedPairs[3].output], GrantHeading)
              /\ Contains(docs_fs[ExpectedPairs[3].output], GrantParagraph)

\* C6 witness: a run with only LICENSE present has written LICENSE.html
\* and left a stale COPYRIGHT.html as it was.
C6_Witness ==
    /\ mpc = "done"
    /\ DOMAIN root_fs = {ExpectedPairs[3].source}
    /\ root_fs[ExpectedPairs[3].source] = GrantContent
    /\ written = {ExpectedPairs[3].output}
    /\ DOMAIN docs_fs = {ExpectedPairs[3].output, ExpectedPairs[4].output}
    /\ docs_fs[ExpectedPairs[4].output] = StaleContent

\* C8: a run of main is idempotent and stateless: from any filesystem state
\* a second run in a row leaves the filesystem as the first run left it and
\* prints the same console lines, and no run changes or deletes a source
\* file.
C8_Idempotent ==
    /\ [](  (mpc = "done" /\ runs >= 2) =>
              /\ console = prev[1].console
              /\ docs_dir = prev[1].docs_dir
              /\ docs_fs = prev[1].docs_fs
              /\ root_fs = prev[1].root_fs )
    /\ [][root_fs' = root_fs]_vars

\* C8 witness: a second run has ended, having rewritten an output over a
\* file that existed before the first run.
C8_Witness ==
    /\ mpc = "done"
    /\ runs = 2
    /\ written # {}
    /\ DOMAIN docs_fs # written
====
